---- MODULE Spec2Model ----
(***************************************************************************)
(* Model of product-with-repeat (src/src/lib.rs): three odometer iterators *)
(* over the Cartesian product:                                             *)
(*   Iter              product_with_repeat(repeat)      (runtime length)   *)
(*   known_size::Iter  product_with_repeat::<REPEAT>()  (fixed length)     *)
(*   Product           product(&[A; N_ITS])             (N sources)        *)
(* A slice is a TLA+ sequence (1-based), the digits in `state` are the     *)
(* 0-based usize indices of the code, so items[i] of the code is           *)
(* items[i + 1] here.  A digit is < items.len() whenever it is incremented,*)
(* so `*r += 1` cannot wrap and usize is modelled by Nat.                  *)
(***************************************************************************)
EXTENDS Integers, Sequences, FiniteSets, TLC

(***************************************************************************)
(* Bounds                                                                  *)
(***************************************************************************)
\* longest source slice
MaxLen == 3
\* largest repeat count / REPEAT
MaxRepeat == 2
\* largest N_ITS
MaxN == 2
\* calls to next() that do not yield which one iterator is driven through
MaxExtra == 2

Letters == <<"A", "B", "C", "D", "E">>
Digits == <<"1", "2", "3", "4", "5">>

Min(a, b) == IF a < b THEN a ELSE b

Prefix(s, n) == SubSeq(s, 1, Min(n, Len(s)))

\* the source slices the iterators are built over
Sources == {Prefix(Letters, n) : n \in 0..MaxLen} \cup {Prefix(Digits, n) : n \in 0..MaxLen}

\* the arrays of N_ITS sources handed to product()
RECURSIVE SourceArrays(_)
SourceArrays(n) ==
    IF n = 0 THEN {<<>>}
    ELSE {Append(a, s) : a \in SourceArrays(n - 1), s \in Sources}

Zeros(n) == [i \in 1..n |-> 0]

(***************************************************************************)
(* State: the three iterator structs and, for each, the values its next()  *)
(* has returned so far.                                                    *)
(***************************************************************************)
VARIABLES it, ks, pr, itOut, ksOut, prOut

vars == <<it, ks, pr, itOut, ksOut, prOut>>

\* Option<Self::Item>, and the panic of an out-of-bounds slice index
None == [kind |-> "None", item |-> <<>>]
Some(item) == [kind |-> "Some", item |-> item]
Panic == [kind |-> "Panic", item |-> <<>>]

(***************************************************************************)
(* Iter (runtime repeat count)                                             *)
(***************************************************************************)
product_with_repeat(items, repeat) ==
    [items |-> items, state |-> Zeros(repeat), completed |-> FALSE]

item_len(self) == Len(self.state)

\* increment_state wrapping a digit one index early (`*r >= len - 1`)
RECURSIVE Iter_increment_loop_early_wrap(_, _, _)
Iter_increment_loop_early_wrap(state, i, len) ==
    IF i = 0 THEN [state |-> state, carry |-> TRUE]
    ELSE IF state[i] + 1 >= len - 1
         THEN Iter_increment_loop_early_wrap([state EXCEPT ![i] = 0], i - 1, len)
         ELSE [state |-> [state EXCEPT ![i] = state[i] + 1], carry |-> FALSE]

\* increment_state scanning the digits first to last (`.rev()` left out)
RECURSIVE Iter_increment_loop_forward(_, _, _)
Iter_increment_loop_forward(state, i, len) ==
    LET p == Len(state) - i + 1
    IN IF i = 0 THEN [state |-> state, carry |-> TRUE]
       ELSE IF state[p] + 1 >= len
            THEN Iter_increment_loop_forward([state EXCEPT ![p] = 0], i - 1, len)
            ELSE [state |-> [state EXCEPT ![p] = state[p] + 1], carry |-> FALSE]

\* increment_state leaving the loop after the first wrap (`break` after `*r = 0`)
Iter_increment_loop_stop_after_wrap(state, i, len) ==
    IF i = 0 THEN [state |-> state, carry |-> TRUE]
    ELSE IF state[i] + 1 >= len
         THEN [state |-> [state EXCEPT ![i] = 0], carry |-> TRUE]
         ELSE [state |-> [state EXCEPT ![i] = state[i] + 1], carry |-> FALSE]

\* the for loop of increment_state: r walks state from the last digit (i =
\* Len) to the first; i = 0 is the end of the loop with carry still set
RECURSIVE Iter_increment_loop(_, _, _)
Iter_increment_loop(state, i, len) ==
    IF i = 0 THEN [state |-> state, carry |-> TRUE]
    ELSE IF state[i] + 1 >= len
         THEN Iter_increment_loop([state EXCEPT ![i] = 0], i - 1, len)
         ELSE [state |-> [state EXCEPT ![i] = state[i] + 1], carry |-> FALSE]

\* increment_state reporting overflow only when there is a digit to overflow
Iter_increment_state_needs_digit(self) ==
    LET l == Iter_increment_loop(self.state, Len(self.state), Len(self.items))
        overflowed == l.carry /\ Len(self.state) > 0
    IN [self EXCEPT !.state = l.state, !.completed = overflowed]

Iter_increment_state(self) ==
    LET l == Iter_increment_loop(self.state, Len(self.state), Len(self.items))
        overflowed == l.carry
    IN [self EXCEPT !.state = l.state, !.completed = overflowed]

\* next() without the early return on `completed`
Iter_next_unguarded(self) ==
    IF \E p \in 1..item_len(self) : self.state[p] >= Len(self.items)
    THEN [self |-> self, ret |-> Panic]
    ELSE LET item == [p \in 1..item_len(self) |-> self.items[self.state[p] + 1]]
         IN [self |-> Iter_increment_state(self), ret |-> Some(item)]

\* next() calling increment_state before it builds the item
Iter_next_increment_first(self) ==
    IF self.completed THEN [self |-> self, ret |-> None]
    ELSE LET inc == Iter_increment_state(self)
         IN IF \E p \in 1..item_len(inc) : inc.state[p] >= Len(inc.items)
            THEN [self |-> inc, ret |-> Panic]
            ELSE LET item == [p \in 1..item_len(inc) |-> inc.items[inc.state[p] + 1]]
                 IN [self |-> inc, ret |-> Some(item)]

Iter_next(self) ==
    IF self.completed THEN [self |-> self, ret |-> None]
    ELSE IF \E p \in 1..item_len(self) : self.state[p] >= Len(self.items)
         THEN [self |-> self, ret |-> Panic]
         ELSE LET item == [p \in 1..item_len(self) |-> self.items[self.state[p] + 1]]
              IN [self |-> Iter_increment_state(self), ret |-> Some(item)]

(***************************************************************************)
(* known_size::Iter (REPEAT fixed at compile time)                         *)
(***************************************************************************)
known_size_product_with_repeat(items, REPEAT) ==
    [items |-> items, state |-> Zeros(REPEAT), completed |-> FALSE]

\* increment_state wrapping a digit one index late (`*r > len`)
RECURSIVE known_size_increment_loop_late_wrap(_, _, _)
known_size_increment_loop_late_wrap(state, i, len) ==
    IF i = 0 THEN [state |-> state, carry |-> TRUE]
    ELSE IF state[i] + 1 > len
         THEN known_size_increment_loop_late_wrap([state EXCEPT ![i] = 0], i - 1, len)
         ELSE [state |-> [state EXCEPT ![i] = state[i] + 1], carry |-> FALSE]

RECURSIVE known_size_increment_loop(_, _, _)
known_size_increment_loop(state, i, len) ==
    IF i = 0 THEN [state |-> state, carry |-> TRUE]
    ELSE IF state[i] + 1 >= len
         THEN known_size_increment_loop([state EXCEPT ![i] = 0], i - 1, len)
         ELSE [state |-> [state EXCEPT ![i] = state[i] + 1], carry |-> FALSE]

\* increment_state with carry left set once any digit has wrapped
known_size_increment_state_flag_on_wrap(self) ==
    LET l == known_size_increment_loop(self.state, Len(self.state), Len(self.items))
        n == Len(self.state)
        overflowed == l.carry \/ (n > 0 /\ l.state[n] = 0 /\ self.state[n] # 0)
    IN [self EXCEPT !.state = l.state, !.completed = overflowed]

known_size_increment_state(self) ==
    LET l == known_size_increment_loop(self.state, Len(self.state), Len(self.items))
        overflowed == l.carry
    IN [self EXCEPT !.state = l.state, !.completed = overflowed]

\* std::array::from_fn calls the closure for i = 0, 1, ...; the first index
\* out of bounds panics before increment_state runs
known_size_next(self) ==
    IF self.completed THEN [self |-> self, ret |-> None]
    ELSE IF \E p \in 1..Len(self.state) : self.state[p] >= Len(self.items)
         THEN [self |-> self, ret |-> Panic]
         ELSE LET item == [p \in 1..Len(self.state) |-> self.items[self.state[p] + 1]]
              IN [self |-> known_size_increment_state(self), ret |-> Some(item)]

(***************************************************************************)
(* Product (N_ITS sources, one digit per source)                           *)
(***************************************************************************)
product(items) ==
    [items |-> items, state |-> Zeros(Len(items)), completed |-> FALSE]

\* the 'increment_state block overflowing every digit against the length of
\* the first source
RECURSIVE Product_increment_loop_shared_radix(_, _, _)
Product_increment_loop_shared_radix(state, i, items) ==
    IF i = 0 THEN [state |-> state, carry |-> TRUE]
    ELSE IF state[i] + 1 >= Len(items[1])
         THEN Product_increment_loop_shared_radix([state EXCEPT ![i] = 0], i - 1, items)
         ELSE [state |-> [state EXCEPT ![i] = state[i] + 1], carry |-> FALSE]

\* the 'increment_state block carrying without `*r = 0`
RECURSIVE Product_increment_loop_no_reset(_, _, _)
Product_increment_loop_no_reset(state, i, items) ==
    IF i = 0 THEN [state |-> state, carry |-> TRUE]
    ELSE IF state[i] + 1 >= Len(items[i])
         THEN Product_increment_loop_no_reset([state EXCEPT ![i] = state[i] + 1], i - 1, items)
         ELSE [state |-> [state EXCEPT ![i] = state[i] + 1], carry |-> FALSE]

\* the 'increment_state block wrapping a digit one index late (`*r > len`)
RECURSIVE Product_increment_loop_late_wrap(_, _, _)
Product_increment_loop_late_wrap(state, i, items) ==
    IF i = 0 THEN [state |-> state, carry |-> TRUE]
    ELSE IF state[i] + 1 > Len(items[i])
         THEN Product_increment_loop_late_wrap([state EXCEPT ![i] = 0], i - 1, items)
         ELSE [state |-> [state EXCEPT ![i] = state[i] + 1], carry |-> FALSE]

\* the loop of the 'increment_state block: digit i overflows against the
\* length of source i
RECURSIVE Product_increment_loop(_, _, _)
Product_increment_loop(state, i, items) ==
    IF i = 0 THEN [state |-> state, carry |-> TRUE]
    ELSE IF state[i] + 1 >= Len(items[i])
         THEN Product_increment_loop([state EXCEPT ![i] = 0], i - 1, items)
         ELSE [state |-> [state EXCEPT ![i] = state[i] + 1], carry |-> FALSE]

Product_increment_state(self) ==
    LET l == Product_increment_loop(self.state, Len(self.state), self.items)
        overflowed == l.carry
    IN [self EXCEPT !.state = l.state, !.completed = overflowed]

\* next() running the 'increment_state block before the check of `completed`
Product_next_increments_when_completed(self) ==
    IF self.completed THEN [self |-> Product_increment_state(self), ret |-> None]
    ELSE IF \E p \in 1..Len(self.state) : self.state[p] >= Len(self.items[p])
         THEN [self |-> self, ret |-> Panic]
         ELSE LET item == [p \in 1..Len(self.state) |-> self.items[p][self.state[p] + 1]]
              IN [self |-> Product_increment_state(self), ret |-> Some(item)]

Product_next(self) ==
    IF self.completed THEN [self |-> self, ret |-> None]
    ELSE IF \E p \in 1..Len(self.state) : self.state[p] >= Len(self.items[p])
         THEN [self |-> self, ret |-> Panic]
         ELSE LET item == [p \in 1..Len(self.state) |-> self.items[p][self.state[p] + 1]]
              IN [self |-> Product_increment_state(self), ret |-> Some(item)]

(***************************************************************************)
(* The caller: one call to next() per step.  A returned value is recorded  *)
(* with the digits the iterator held when the call was made.               *)
(***************************************************************************)
Returned(ret, state) ==
    [kind |-> ret.kind, item |-> ret.item,
     idx |-> IF ret.kind = "Some" THEN state ELSE <<>>]

\* number of calls recorded in out that did not yield
NonYields(out) == Cardinality({j \in 1..Len(out) : out[j].kind # "Some"})

IterNext ==
    /\ NonYields(itOut) < MaxExtra
    /\ LET c == Iter_next(it)
       IN /\ it' = c.self
          /\ itOut' = Append(itOut, Returned(c.ret, it.state))
    /\ UNCHANGED <<ks, pr, ksOut, prOut>>

KnownNext ==
    /\ NonYields(ksOut) < MaxExtra
    /\ LET c == known_size_next(ks)
       IN /\ ks' = c.self
          /\ ksOut' = Append(ksOut, Returned(c.ret, ks.state))
    /\ UNCHANGED <<it, pr, itOut, prOut>>

ProductNext ==
    /\ NonYields(prOut) < MaxExtra
    /\ LET c == Product_next(pr)
       IN /\ pr' = c.self
          /\ prOut' = Append(prOut, Returned(c.ret, pr.state))
    /\ UNCHANGED <<it, ks, itOut, ksOut>>

NoCalls ==
    /\ itOut = <<>>
    /\ ksOut = <<>>
    /\ prOut = <<>>

\* a caller that builds the runtime and the fixed-size iterator over the same
\* slice with the same repeat length; its Product is the one over no source
InitRepeat ==
    /\ \E items \in Sources, repeat \in 0..MaxRepeat :
          /\ it = product_with_repeat(items, repeat)
          /\ ks = known_size_product_with_repeat(items, repeat)
    /\ pr = product(<<>>)
    /\ NoCalls

\* a caller that builds a Product over an array of sources; its
\* repeat-product iterators are the ones of length 0 over the empty slice
InitProduct ==
    /\ \E n \in 0..MaxN : \E items \in SourceArrays(n) : pr = product(items)
    /\ it = product_with_repeat(<<>>, 0)
    /\ ks = known_size_product_with_repeat(<<>>, 0)
    /\ NoCalls

\* an array of n references to one source
Copies(items, n) == [p \in 1..n |-> items]

\* a caller that builds the fixed-size iterator over a slice with REPEAT = n
\* and a Product over n copies of that slice; its runtime iterator is the one
\* of length 0 over the empty slice
InitCopies ==
    /\ \E items \in Sources, n \in 0..Min(MaxRepeat, MaxN) :
          /\ ks = known_size_product_with_repeat(items, n)
          /\ pr = product(Copies(items, n))
    /\ it = product_with_repeat(<<>>, 0)
    /\ NoCalls

Init == InitRepeat \/ InitProduct \/ InitCopies

Next == IterNext \/ KnownNext \/ ProductNext

Spec == Init /\ [][Next]_vars

(***************************************************************************)
(* Vocabulary of the properties                                            *)
(***************************************************************************)
RECURSIVE Pow(_, _)
Pow(k, r) == IF r = 0 THEN 1 ELSE k * Pow(k, r - 1)

\* k1 * k2 * ... * kN for an array of sources
RECURSIVE LenProduct(_)
LenProduct(items) ==
    IF items = <<>> THEN 1
    ELSE Len(items[1]) * LenProduct(Tail(items))

\* [0,k)^r
AllTuples(k, r) == [1..r -> 0..(k - 1)]

\* a < b, leftmost position most significant
LexLess(a, b) ==
    \E p \in 1..Len(a) :
        /\ \A q \in 1..(p - 1) : a[q] = b[q]
        /\ a[p] < b[p]

Yields(out) == {j \in 1..Len(out) : out[j].kind = "Some"}

\* the calls that yielded and were followed by a call that yielded
YieldPairs(out) ==
    {j \in 1..(Len(out) - 1) : out[j].kind = "Some" /\ out[j + 1].kind = "Some"}

Exhausted(out) == \E j \in 1..Len(out) : out[j].kind = "None"

Panicked(out) == \E j \in 1..Len(out) : out[j].kind = "Panic"

\* no call after one that reported exhaustion returns anything else
StaysExhausted(out) ==
    \A j \in 1..(Len(out) - 1) : out[j].kind = "None" => out[j + 1].kind = "None"

\* the items of the calls that yielded, in call order
RECURSIVE YieldedItems(_)
YieldedItems(out) ==
    IF out = <<>> THEN <<>>
    ELSE IF out[1].kind = "Some"
         THEN <<out[1].item>> \o YieldedItems(Tail(out))
         ELSE YieldedItems(Tail(out))

(***************************************************************************)
(* C1: over a source of length k with repeat count r, the first k^r calls  *)
(* to next() of the runtime iterator return an item and every call after   *)
(* them reports exhaustion (k^r = 0 for k = 0, r > 0; 1 for r = 0).        *)
(***************************************************************************)
C1_YieldsPowItems ==
    LET total == Pow(Len(it.items), Len(it.state))
    IN \A j \in 1..Len(itOut) :
          /\ j <= total => itOut[j].kind = "Some"
          /\ j > total => itOut[j].kind = "None"

\* the same count restricted to the inputs whose first call does not index
\* the empty slice
C1_YieldsPowItemsUnlessEmpty ==
    (Len(it.items) > 0 \/ Len(it.state) = 0) => C1_YieldsPowItems

(***************************************************************************)
(* C2: over the empty source with repeat count r > 0 the runtime and the   *)
(* fixed-size iterator yield nothing: every next() reports exhaustion and  *)
(* none indexes the slice out of bounds.                                   *)
(***************************************************************************)
C2_EmptySourceYieldsNothing ==
    /\ (Len(it.items) = 0 /\ Len(it.state) > 0) =>
          \A j \in 1..Len(itOut) : itOut[j].kind = "None"
    /\ (Len(ks.items) = 0 /\ Len(ks.state) > 0) =>
          \A j \in 1..Len(ksOut) : ksOut[j].kind = "None"

(***************************************************************************)
(* C3: a Product with an empty source at any position yields nothing:      *)
(* every next() reports exhaustion and none indexes a source out of bounds.*)
(***************************************************************************)
C3_AnyEmptySourceYieldsNothing ==
    (\E p \in 1..Len(pr.items) : Len(pr.items[p]) = 0) =>
        \A j \in 1..Len(prOut) : prOut[j].kind = "None"

(***************************************************************************)
(* C4: the index tuples yielded by the runtime iterator are pairwise       *)
(* distinct (as many distinct tuples as yielding calls), each lies in      *)
(* [0,k)^r, and once exhaustion is reported every tuple of [0,k)^r has     *)
(* been yielded (so each exactly once).                                    *)
(***************************************************************************)
C4_EachTupleExactlyOnce ==
    LET all == AllTuples(Len(it.items), Len(it.state))
        yielded == {itOut[j].idx : j \in Yields(itOut)}
    IN /\ Cardinality(yielded) = Cardinality(Yields(itOut))
       /\ yielded \subseteq all
       /\ Exhausted(itOut) => yielded = all

C4_Witness ==
    /\ Exhausted(itOut)
    /\ Len(it.items) >= 2
    /\ Len(it.state) >= 2
    /\ Cardinality(Yields(itOut)) >= 4

(***************************************************************************)
(* C5: of two consecutive items yielded by the runtime iterator the index  *)
(* tuple of the earlier is strictly lexicographically less than that of    *)
(* the later, leftmost position most significant; over [A,B] with r = 2    *)
(* the items are (A,A),(A,B),(B,A),(B,B) in that order.                    *)
(***************************************************************************)
C5_LexicographicOrder ==
    /\ \A j \in YieldPairs(itOut) : LexLess(itOut[j].idx, itOut[j + 1].idx)
    /\ (it.items = <<"A", "B">> /\ Len(it.state) = 2 /\ Exhausted(itOut)) =>
          YieldedItems(itOut) =
              << <<"A", "A">>, <<"A", "B">>, <<"B", "A">>, <<"B", "B">> >>

C5_Witness ==
    /\ it.items = <<"A", "B">>
    /\ Len(it.state) = 2
    /\ Exhausted(itOut)
    /\ Cardinality(Yields(itOut)) = 4

(***************************************************************************)
(* C6: fused exhaustion, for all three iterators: a call to next() after   *)
(* one that reported exhaustion reports exhaustion too, and no step takes  *)
(* a completion flag from true back to false.                              *)
(***************************************************************************)
C6_FusedExhaustion ==
    /\ [](StaysExhausted(itOut) /\ StaysExhausted(ksOut) /\ StaysExhausted(prOut))
    /\ [][/\ it.completed => it'.completed
          /\ ks.completed => ks'.completed
          /\ pr.completed => pr'.completed]_vars

C6_Witness ==
    /\ it.completed /\ ks.completed /\ pr.completed
    /\ Len(it.items) >= 2 /\ Len(it.state) >= 2
    /\ NonYields(itOut) >= 2 /\ NonYields(ksOut) >= 2 /\ NonYields(prOut) >= 2

(***************************************************************************)
(* C7: with repeat count 0, over any source, the first next() of the       *)
(* runtime iterator yields the empty tuple and the second and every later  *)
(* next() report exhaustion.                                               *)
(***************************************************************************)
C7_RepeatZeroYieldsOneEmptyTuple ==
    Len(it.state) = 0 =>
        \A j \in 1..Len(itOut) :
            /\ j = 1 => (itOut[j].kind = "Some" /\ itOut[j].item = <<>>)
            /\ j > 1 => itOut[j].kind = "None"

C7_Witness ==
    /\ Len(it.state) = 0
    /\ Len(it.items) > 0
    /\ Len(itOut) >= 3

(***************************************************************************)
(* C8: over sources of lengths (k1,...,kN) the first k1*...*kN calls to    *)
(* next() of the Product return an item and every call after them reports  *)
(* exhaustion (one item, the empty tuple, for N = 0).                      *)
(***************************************************************************)
C8_YieldsLenProductItems ==
    LET total == LenProduct(pr.items)
    IN \A j \in 1..Len(prOut) :
          /\ j <= total => prOut[j].kind = "Some"
          /\ j > total => prOut[j].kind = "None"

\* the same count restricted to arrays without an empty source
C8_YieldsLenProductItemsUnlessEmpty ==
    (\A p \in 1..Len(pr.items) : Len(pr.items[p]) > 0) => C8_YieldsLenProductItems

(***************************************************************************)
(* C9: position p of every tuple yielded by the Product is the element of  *)
(* source p at digit p, a digit below the length of source p; from one     *)
(* yielded tuple to the next a digit stays, goes up by one, or returns to  *)
(* 0 from the last index of its own source; the index tuples go up in      *)
(* lexicographic order; [[A,B],[1,2,3]] yields (A,1),(A,2),(A,3),(B,1),    *)
(* (B,2),(B,3) in that order.                                              *)
(***************************************************************************)
C9_OwnRadixPerPosition ==
    /\ \A j \in Yields(prOut) : \A p \in 1..Len(pr.items) :
          /\ prOut[j].idx[p] < Len(pr.items[p])
          /\ prOut[j].item[p] = pr.items[p][prOut[j].idx[p] + 1]
    /\ \A j \in YieldPairs(prOut) :
          /\ LexLess(prOut[j].idx, prOut[j + 1].idx)
          /\ \A p \in 1..Len(pr.items) :
                LET a == prOut[j].idx[p]
                    b == prOut[j + 1].idx[p]
                IN /\ b \in {a, a + 1, 0}
                   /\ (b = 0 /\ a # 0) => a = Len(pr.items[p]) - 1
    /\ (pr.items = << <<"A", "B">>, <<"1", "2", "3">> >> /\ Exhausted(prOut)) =>
          YieldedItems(prOut) =
              << <<"A", "1">>, <<"A", "2">>, <<"A", "3">>,
                 <<"B", "1">>, <<"B", "2">>, <<"B", "3">> >>

C9_Witness ==
    /\ pr.items = << <<"A", "B">>, <<"1", "2", "3">> >>
    /\ Exhausted(prOut)
    /\ Cardinality(Yields(prOut)) = 6

(***************************************************************************)
(* C10: the runtime and the fixed-size iterator over the same slice with   *)
(* the same repeat length return the same value from their j-th next(),    *)
(* for every j both have been called: the same index tuple and item when   *)
(* they yield, exhaustion on the same call.                                *)
(***************************************************************************)
C10_FixedSizeSameAsRuntime ==
    (ks.items = it.items /\ Len(ks.state) = Len(it.state)) =>
        \A j \in 1..Min(Len(itOut), Len(ksOut)) : itOut[j] = ksOut[j]

C10_Witness ==
    /\ ks.items = it.items /\ Len(ks.state) = Len(it.state)
    /\ Len(it.items) >= 2 /\ Len(it.state) >= 2
    /\ Exhausted(itOut) /\ Exhausted(ksOut)
    /\ Len(itOut) = Len(ksOut)

(***************************************************************************)
(* C12: in every reachable state of each of the three iterators every      *)
(* digit is a valid index into its source, 0 <= digit < len(source), and   *)
(* so no next() indexes a source out of bounds.                            *)
(***************************************************************************)
C12_DigitsAreValidIndices ==
    /\ \A p \in 1..Len(it.state) : 0 <= it.state[p] /\ it.state[p] < Len(it.items)
    /\ \A p \in 1..Len(ks.state) : 0 <= ks.state[p] /\ ks.state[p] < Len(ks.items)
    /\ \A p \in 1..Len(pr.state) : 0 <= pr.state[p] /\ pr.state[p] < Len(pr.items[p])
    /\ ~Panicked(itOut) /\ ~Panicked(ksOut) /\ ~Panicked(prOut)

\* the same invariant restricted to iterators none of whose sources is empty
C12_DigitsAreValidIndicesUnlessEmpty ==
    (/\ Len(it.items) > 0 \/ Len(it.state) = 0
     /\ Len(ks.items) > 0 \/ Len(ks.state) = 0
     /\ \A p \in 1..Len(pr.items) : Len(pr.items[p]) > 0) => C12_DigitsAreValidIndices

(***************************************************************************)
(* Vocabulary of the digit-level properties                                *)
(***************************************************************************)
\* the radix of every digit position
Radices(self) == [p \in 1..Len(self.state) |-> Len(self.items)]

ProductRadices(self) == [p \in 1..Len(self.state) |-> Len(self.items[p])]

\* the maximum combination: every digit at radix - 1
IsMax(state, rad) == \A p \in 1..Len(state) : state[p] = rad[p] - 1

\* the digit immediately left of the maximal run of trailing digits at radix - 1
Pivot(state, rad) ==
    CHOOSE t \in 1..Len(state) :
        /\ state[t] # rad[t] - 1
        /\ \A q \in (t + 1)..Len(state) : state[q] = rad[q] - 1

\* b is a with the trailing run reset, the pivot digit one up, the rest kept
OneIncrement(a, b, rad) ==
    LET t == Pivot(a, rad)
    IN /\ Len(b) = Len(a)
       /\ \A p \in 1..Len(a) :
             b[p] = IF p < t THEN a[p] ELSE IF p = t THEN a[p] + 1 ELSE 0

\* the step from history o to o2 is one call to next() that yielded
Yielding(o, o2) == Len(o2) = Len(o) + 1 /\ o2[Len(o2)].kind = "Some"

(***************************************************************************)
(* C13: the increment step of a next() that yields from a digit state that *)
(* is not the maximum combination resets to 0 exactly the maximal run of   *)
(* trailing digits equal to radix - 1, adds 1 to the digit immediately     *)
(* left of that run, leaves every more significant digit unchanged and     *)
(* leaves the completion flag false (all three iterators).                 *)
(***************************************************************************)
C13_IncrementFrame ==
    [][/\ (Yielding(itOut, itOut') /\ ~IsMax(it.state, Radices(it))) =>
             (OneIncrement(it.state, it'.state, Radices(it)) /\ ~it'.completed)
       /\ (Yielding(ksOut, ksOut') /\ ~IsMax(ks.state, Radices(ks))) =>
             (OneIncrement(ks.state, ks'.state, Radices(ks)) /\ ~ks'.completed)
       /\ (Yielding(prOut, prOut') /\ ~IsMax(pr.state, ProductRadices(pr))) =>
             (OneIncrement(pr.state, pr'.state, ProductRadices(pr)) /\ ~pr'.completed)]_vars

\* the Product over [A,B],[1,2,3] right after the carry out of its last digit
C13_Witness ==
    /\ pr.items = << <<"A", "B">>, <<"1", "2", "3">> >>
    /\ Len(prOut) = 3
    /\ prOut[3].kind = "Some" /\ prOut[3].idx = <<0, 2>>
    /\ pr.state = <<1, 0>>
    /\ ~pr.completed

(***************************************************************************)
(* C14: the completion flag goes from false to true exactly in the next()  *)
(* call that yields the maximum combination (every digit at radix - 1, the *)
(* empty tuple when there is no digit), and in every reachable state with  *)
(* the flag true all digits are 0 (all three iterators).                   *)
(***************************************************************************)
C14_CompletedExactlyAtMax ==
    /\ [](/\ it.completed => it.state = Zeros(Len(it.state))
          /\ ks.completed => ks.state = Zeros(Len(ks.state))
          /\ pr.completed => pr.state = Zeros(Len(pr.state)))
    /\ [][/\ (~it.completed /\ it'.completed) <=>
                (Yielding(itOut, itOut') /\ IsMax(it.state, Radices(it)))
          /\ (~ks.completed /\ ks'.completed) <=>
                (Yielding(ksOut, ksOut') /\ IsMax(ks.state, Radices(ks)))
          /\ (~pr.completed /\ pr'.completed) <=>
                (Yielding(prOut, prOut') /\ IsMax(pr.state, ProductRadices(pr)))]_vars

\* the fixed-size iterator right after the call that yielded its last tuple
C14_Witness ==
    /\ Len(ks.items) >= 2 /\ Len(ks.state) = 2
    /\ ksOut # <<>>
    /\ ksOut[Len(ksOut)].kind = "Some"
    /\ IsMax(ksOut[Len(ksOut)].idx, Radices(ks))
    /\ ks.completed
    /\ ks.state = <<0, 0>>

\* the tuple of source elements at the digits idx
ItemAt(items, idx) == [p \in 1..Len(idx) |-> items[idx[p] + 1]]

ProductItemAt(items, idx) == [p \in 1..Len(idx) |-> items[p][idx[p] + 1]]

(***************************************************************************)
(* C15: every next() that yields returns the tuple for the digits the      *)
(* iterator held before the call; the first item of a fresh iterator has   *)
(* source element 0 in every position; at construction the digits are all  *)
(* zero and the completion flag is false (all three iterators).            *)
(***************************************************************************)
C15_ItemReadBeforeIncrement ==
    /\ \A j \in Yields(itOut) : itOut[j].item = ItemAt(it.items, itOut[j].idx)
    /\ \A j \in Yields(ksOut) : ksOut[j].item = ItemAt(ks.items, ksOut[j].idx)
    /\ \A j \in Yields(prOut) : prOut[j].item = ProductItemAt(pr.items, prOut[j].idx)
    /\ 1 \in Yields(itOut) => itOut[1].item = [p \in 1..Len(it.state) |-> it.items[1]]
    /\ 1 \in Yields(ksOut) => ksOut[1].item = [p \in 1..Len(ks.state) |-> ks.items[1]]
    /\ 1 \in Yields(prOut) => prOut[1].item = [p \in 1..Len(pr.state) |-> pr.items[p][1]]
    /\ itOut = <<>> => (it.state = Zeros(Len(it.state)) /\ ~it.completed)
    /\ ksOut = <<>> => (ks.state = Zeros(Len(ks.state)) /\ ~ks.completed)
    /\ prOut = <<>> => (pr.state = Zeros(Len(pr.state)) /\ ~pr.completed)

\* the runtime iterator over [A,B] with r = 2 after (A,A) and (A,B)
C15_Witness ==
    /\ it.items = <<"A", "B">> /\ Len(it.state) = 2
    /\ Len(itOut) = 2
    /\ itOut[1].item = <<"A", "A">> /\ itOut[1].idx = <<0, 0>>
    /\ itOut[2].item = <<"A", "B">> /\ itOut[2].idx = <<0, 1>>
    /\ it.state = <<1, 0>>

(***************************************************************************)
(* C16: a next() on an iterator whose completion flag is true leaves the   *)
(* digits and the flag unchanged, and no next(), yielding or not, changes  *)
(* the source sequence or its length (all three iterators).                *)
(***************************************************************************)
C16_ExhaustedNextChangesNothing ==
    [][/\ it.completed => (it'.state = it.state /\ it'.completed = it.completed)
       /\ ks.completed => (ks'.state = ks.state /\ ks'.completed = ks.completed)
       /\ pr.completed => (pr'.state = pr.state /\ pr'.completed = pr.completed)
       /\ it'.items = it.items /\ Len(it'.items) = Len(it.items)
       /\ ks'.items = ks.items /\ Len(ks'.items) = Len(ks.items)
       /\ pr'.items = pr.items /\ Len(pr'.items) = Len(pr.items)]_vars

\* a Product over two sources of two or more elements called twice after its
\* last tuple
C16_Witness ==
    /\ Len(pr.items) = 2
    /\ Len(pr.items[1]) >= 2 /\ Len(pr.items[2]) >= 2
    /\ pr.completed
    /\ Len(prOut) >= 2
    /\ prOut[Len(prOut)].kind = "None"
    /\ prOut[Len(prOut) - 1].kind = "None"

\* the number written by the first n digits of state in the mixed radix rad,
\* leftmost digit most significant
RECURSIVE RankUpTo(_, _, _)
RankUpTo(state, rad, n) ==
    IF n = 0 THEN 0
    ELSE RankUpTo(state, rad, n - 1) * rad[n] + state[n]

Rank(state, rad) == RankUpTo(state, rad, Len(state))

\* state is the representation of j in the mixed radix rad
Represents(state, rad, j) ==
    /\ \A p \in 1..Len(state) : 0 <= state[p] /\ state[p] < rad[p]
    /\ Rank(state, rad) = j

\* the last call recorded in out yielded
LastYielded(out) == out # <<>> /\ out[Len(out)].kind = "Some"

(***************************************************************************)
(* C17: over a non-empty source of length k with repeat r, after j         *)
(* yielding calls, 0 <= j < k^r, the digits of the runtime iterator read   *)
(* most significant first are the base-k representation of j, and the      *)
(* j-th item yielded (0-based) is the tuple of rank j; the same holds for  *)
(* the Product over non-empty sources with the radices (k1,...,kN).  The   *)
(* rank of an item is stated in the state right after the call that        *)
(* yielded it, which every item has.                                       *)
(***************************************************************************)
C17_StateIsRankOfYieldCount ==
    LET itCount == Cardinality(Yields(itOut))
        prCount == Cardinality(Yields(prOut))
    IN /\ Len(it.items) > 0 =>
             /\ LastYielded(itOut) =>
                   Represents(itOut[Len(itOut)].idx, Radices(it), itCount - 1)
             /\ itCount < Pow(Len(it.items), Len(it.state)) =>
                   Represents(it.state, Radices(it), itCount)
       /\ (\A p \in 1..Len(pr.items) : Len(pr.items[p]) > 0) =>
             /\ LastYielded(prOut) =>
                   Represents(prOut[Len(prOut)].idx, ProductRadices(pr), prCount - 1)
             /\ prCount < LenProduct(pr.items) =>
                   Represents(pr.state, ProductRadices(pr), prCount)

\* the runtime iterator over three elements with r = 2 after five items,
\* and so after a carry: 5 = 1 * 3 + 2
C17_Witness ==
    /\ Len(it.items) = 3 /\ Len(it.state) = 2
    /\ Cardinality(Yields(itOut)) = 5
    /\ it.state = <<1, 2>>

(***************************************************************************)
(* C18: over a non-empty source S, the Product given N copies of S and the *)
(* fixed-size iterator over S with REPEAT = N return the same value from   *)
(* their j-th next(), for every j both have been called: the same index    *)
(* tuple and item when they yield, exhaustion on the same call.            *)
(***************************************************************************)
C18_ProductOfCopiesSameAsFixedSize ==
    (Len(ks.items) > 0 /\ pr.items = Copies(ks.items, Len(ks.state))) =>
        \A j \in 1..Min(Len(ksOut), Len(prOut)) : ksOut[j] = prOut[j]

\* both driven to exhaustion over two copies of a source of two or more
C18_Witness ==
    /\ Len(ks.items) >= 2 /\ Len(ks.state) = 2
    /\ pr.items = Copies(ks.items, 2)
    /\ Exhausted(ksOut) /\ Exhausted(prOut)
    /\ Len(ksOut) = Len(prOut)

====
